---- MODULE Spec2Model ----
(***************************************************************************)
(* Model of the Misiddons book database (src/streamlit_app.py): the        *)
(* metadata adapters and merger, the de-duplicating sheet writer, the      *)
(* add operations of the UI and the Deep-Clean & Repair pass.              *)
(*                                                                         *)
(* A Python str is modelled as a sequence of one-character strings, so     *)
(* that strip, lower, split, isdigit and the regular expressions are       *)
(* computed character by character as the code computes them.  Two         *)
(* stand-in characters model non-ASCII letters: "e_acute" (decomposes to   *)
(* "e" under NFKD) and "o_slash" (has no decomposition).                   *)
(***************************************************************************)
EXTENDS Integers, Sequences, FiniteSets, TLC

\* ------------------------------------------------------------------------
\* Characters and the str methods the code uses
\* ------------------------------------------------------------------------
Digits == {"0","1","2","3","4","5","6","7","8","9"}

LowerLetters ==
    {"a","b","c","d","e","f","g","h","i","j","k","l","m",
     "n","o","p","q","r","s","t","u","v","w","x","y","z"}

UpperToLower ==
    [A |-> "a", B |-> "b", C |-> "c", D |-> "d", E |-> "e", F |-> "f",
     G |-> "g", H |-> "h", I |-> "i", J |-> "j", K |-> "k", L |-> "l",
     M |-> "m", N |-> "n", O |-> "o", P |-> "p", Q |-> "q", R |-> "r",
     S |-> "s", T |-> "t", U |-> "u", V |-> "v", W |-> "w", X |-> "x",
     Y |-> "y", Z |-> "z"]

LowerToUpper ==
    [a |-> "A", b |-> "B", c |-> "C", d |-> "D", e |-> "E", f |-> "F",
     g |-> "G", h |-> "H", i |-> "I", j |-> "J", k |-> "K", l |-> "L",
     m |-> "M", n |-> "N", o |-> "O", p |-> "P", q |-> "Q", r |-> "R",
     s |-> "S", t |-> "T", u |-> "U", v |-> "V", w |-> "W", x |-> "X",
     y |-> "Y", z |-> "Z"]

Whitespace == {" ", "\t", "\n"}

IsDigitChar(c) == c \in Digits

LowerChar(c) == IF c \in DOMAIN UpperToLower THEN UpperToLower[c] ELSE c

UpperChar(c) == IF c \in DOMAIN LowerToUpper THEN LowerToUpper[c] ELSE c

\* str.lower() and str.upper()
Lower(s) == [i \in 1..Len(s) |-> LowerChar(s[i])]

Upper(s) == [i \in 1..Len(s) |-> UpperChar(s[i])]

\* str.isdigit(): non-empty and every character a digit
IsDigitStr(s) == Len(s) > 0 /\ \A i \in 1..Len(s) : IsDigitChar(s[i])

RECURSIVE LStrip(_)
LStrip(s) ==
    IF s # <<>> /\ Head(s) \in Whitespace THEN LStrip(Tail(s)) ELSE s

RECURSIVE RStrip(_)
RStrip(s) ==
    IF s # <<>> /\ s[Len(s)] \in Whitespace
    THEN RStrip(SubSeq(s, 1, Len(s) - 1))
    ELSE s

\* str.strip()
Strip(s) == RStrip(LStrip(s))

\* s.startswith(p) at offset i (1-based): s[i .. i+Len(p)-1] = p
MatchAt(s, i, p) ==
    /\ i >= 1
    /\ i + Len(p) - 1 <= Len(s)
    /\ SubSeq(s, i, i + Len(p) - 1) = p

\* str.find(p), 1-based; 0 when p does not occur
Find(s, p) ==
    IF \E i \in 1..Len(s) : MatchAt(s, i, p)
    THEN CHOOSE i \in 1..Len(s) :
            MatchAt(s, i, p) /\ \A j \in 1..(i - 1) : ~MatchAt(s, j, p)
    ELSE 0

\* p in s
Contains(s, p) == Find(s, p) # 0

\* s.split(p)[0]
SplitFirst(s, p) ==
    IF Contains(s, p) THEN SubSeq(s, 1, Find(s, p) - 1) ELSE s

\* s.count(c) for a single character c
CountChar(s, c) == Cardinality({i \in 1..Len(s) : s[i] = c})

\* s.replace(c, "") for a single character c
RemoveChar(s, c) == SelectSeq(s, LAMBDA x : x # c)

\* Python truthiness of a str
Truthy(s) == s # <<>>

\* dict.get(k, ""): a dict is a function from its keys to strs
Get(d, k) == IF k \in DOMAIN d THEN d[k] ELSE <<>>

\* d with d[k] = v, adding the key when absent
Put(d, k, v) == [x \in DOMAIN d \cup {k} |-> IF x = k THEN v ELSE d[x]]

\* ------------------------------------------------------------------------
\* Language tables and _pretty_lang
\* ------------------------------------------------------------------------
ISO_LANG ==
    { <<<<"E","N">>, <<"E","n","g","l","i","s","h">>>>,
      <<<<"I","T">>, <<"I","t","a","l","i","a","n">>>>,
      <<<<"E","S">>, <<"S","p","a","n","i","s","h">>>>,
      <<<<"D","E">>, <<"G","e","r","m","a","n">>>>,
      <<<<"F","R">>, <<"F","r","e","n","c","h">>>>,
      <<<<"P","T">>, <<"P","o","r","t","u","g","u","e","s","e">>>>,
      <<<<"N","L">>, <<"D","u","t","c","h">>>>,
      <<<<"S","V">>, <<"S","w","e","d","i","s","h">>>>,
      <<<<"N","O">>, <<"N","o","r","w","e","g","i","a","n">>>>,
      <<<<"D","A">>, <<"D","a","n","i","s","h">>>>,
      <<<<"F","I">>, <<"F","i","n","n","i","s","h">>>>,
      <<<<"R","U">>, <<"R","u","s","s","i","a","n">>>>,
      <<<<"P","L">>, <<"P","o","l","i","s","h">>>>,
      <<<<"T","R">>, <<"T","u","r","k","i","s","h">>>>,
      <<<<"Z","H">>, <<"C","h","i","n","e","s","e">>>>,
      <<<<"J","A">>, <<"J","a","p","a","n","e","s","e">>>>,
      <<<<"K","O">>, <<"K","o","r","e","a","n">>>>,
      <<<<"A","R">>, <<"A","r","a","b","i","c">>>>,
      <<<<"H","E">>, <<"H","e","b","r","e","w">>>>,
      <<<<"H","I">>, <<"H","i","n","d","i">>>> }

ISO_LANG_3 ==
    { <<<<"E","N","G">>, <<"E","n","g","l","i","s","h">>>>,
      <<<<"I","T","A">>, <<"I","t","a","l","i","a","n">>>>,
      <<<<"S","P","A">>, <<"S","p","a","n","i","s","h">>>>,
      <<<<"G","E","R">>, <<"G","e","r","m","a","n">>>>,
      <<<<"D","E","U">>, <<"G","e","r","m","a","n">>>>,
      <<<<"F","R","E">>, <<"F","r","e","n","c","h">>>>,
      <<<<"F","R","A">>, <<"F","r","e","n","c","h">>>>,
      <<<<"P","O","R">>, <<"P","o","r","t","u","g","u","e","s","e">>>>,
      <<<<"N","L","D">>, <<"D","u","t","c","h">>>>,
      <<<<"D","U","T">>, <<"D","u","t","c","h">>>>,
      <<<<"S","W","E">>, <<"S","w","e","d","i","s","h">>>>,
      <<<<"N","O","R">>, <<"N","o","r","w","e","g","i","a","n">>>>,
      <<<<"D","A","N">>, <<"D","a","n","i","s","h">>>>,
      <<<<"F","I","N">>, <<"F","i","n","n","i","s","h">>>>,
      <<<<"R","U","S">>, <<"R","u","s","s","i","a","n">>>>,
      <<<<"P","O","L">>, <<"P","o","l","i","s","h">>>>,
      <<<<"T","U","R">>, <<"T","u","r","k","i","s","h">>>>,
      <<<<"Z","H","O">>, <<"C","h","i","n","e","s","e">>>>,
      <<<<"J","P","N">>, <<"J","a","p","a","n","e","s","e">>>>,
      <<<<"K","O","R">>, <<"K","o","r","e","a","n">>>>,
      <<<<"A","R","A">>, <<"A","r","a","b","i","c">>>>,
      <<<<"H","E","B">>, <<"H","e","b","r","e","w">>>>,
      <<<<"H","I","N">>, <<"H","i","n","d","i">>>> }

\* ISO_LANG_2 = ISO_LANG.copy()
ISO_LANG_2 == ISO_LANG

\* dict.get(code, code) on a table of <<code, name>> pairs
LangLookup(table, code) ==
    IF \E p \in table : p[1] = code
    THEN (CHOOSE p \in table : p[1] = code)[2]
    ELSE code

_pretty_lang(code0) ==
    LET code == Upper(Strip(code0)) IN
    IF code = <<>> THEN <<>>
    ELSE IF Len(code) <= 3 THEN LangLookup(ISO_LANG_2, code)
    ELSE LangLookup(ISO_LANG_3, code)

\* ------------------------------------------------------------------------
\* _normalize_isbn and keep_primary_author
\* ------------------------------------------------------------------------
Apostrophe == "'"

\* _normalize_isbn if it only removed the quotes
_normalize_isbn_quotes_only(s) == RemoveChar(s, Apostrophe)

_normalize_isbn(s) ==
    IF s = <<>> THEN <<>>
    ELSE SelectSeq(RemoveChar(s, Apostrophe), IsDigitChar)

SepAnd == <<" ","a","n","d"," ">>

SepAmp == <<" ","&"," ">>

\* keep_primary_author if one comma were enough to keep the first chunk
keep_primary_author_any_comma(author) ==
    LET s == Strip(author) IN
    IF s = <<>> THEN <<>>
    ELSE IF CountChar(s, ",") >= 1 THEN Strip(SplitFirst(s, <<",">>))
    ELSE IF Contains(s, SepAnd) THEN Strip(SplitFirst(s, SepAnd))
    ELSE IF Contains(s, SepAmp) THEN Strip(SplitFirst(s, SepAmp))
    ELSE s

keep_primary_author(author) ==
    LET s == Strip(author) IN
    IF s = <<>> THEN <<>>
    ELSE IF CountChar(s, ",") >= 2 THEN Strip(SplitFirst(s, <<",">>))
    ELSE IF Contains(s, SepAnd) THEN Strip(SplitFirst(s, SepAnd))
    ELSE IF Contains(s, SepAmp) THEN Strip(SplitFirst(s, SepAmp))
    ELSE s

\* ------------------------------------------------------------------------
\* Normalisation helpers of the cross-check and difflib's similarity ratio
\* ------------------------------------------------------------------------
Backslash == "\\"

\* unicodedata.normalize("NFKD", s).encode("ascii", "ignore").decode():
\* an accented letter keeps its base letter, any other non-ASCII character
\* is dropped
StripChar(c) ==
    IF c = "e_acute" THEN <<"e">>
    ELSE IF c = "o_slash" THEN <<>>
    ELSE <<c>>

RECURSIVE _strip_diacritics(_)
_strip_diacritics(s) ==
    IF s = <<>> THEN <<>>
    ELSE StripChar(Head(s)) \o _strip_diacritics(Tail(s))

\* The character class of r"[:(\\[]": colon, parenthesis, backslash, bracket
TitleCutChars == {":", "(", Backslash, "["}

\* re.split(r"[:(\\[]", s, 1)[0]
RECURSIVE CutAtFirst(_)
CutAtFirst(s) ==
    IF s = <<>> \/ Head(s) \in TitleCutChars THEN <<>>
    ELSE <<Head(s)>> \o CutAtFirst(Tail(s))

\* Number of consecutive characters of s from offset i on that lie in cs
RECURSIVE RunLen(_, _, _)
RunLen(s, i, cs) ==
    IF i <= Len(s) /\ s[i] \in cs THEN 1 + RunLen(s, i + 1, cs) ELSE 0

\* The alternatives of (a|an|the), in the order the regex tries them
Articles == << <<"a">>, <<"a","n">>, <<"t","h","e">> >>

\* Length of the match of r"\\b(a|an|the)\\b\\s+" (flags=re.I) with
\* alternative k at offset i, 0 when there is none.  In a raw string "\\b"
\* is the regex of a literal backslash followed by the letter b, and
\* "\\s+" a literal backslash followed by one or more letters s.
ArticleAltLen(s, i, k) ==
    LET alt  == Articles[k]
        j    == i + 2 + Len(alt)
        run  == RunLen(s, j + 3, {"s", "S"})
    IN  IF /\ j + 3 <= Len(s)
           /\ s[i] = Backslash
           /\ LowerChar(s[i + 1]) = "b"
           /\ Lower(SubSeq(s, i + 2, j - 1)) = alt
           /\ s[j] = Backslash
           /\ LowerChar(s[j + 1]) = "b"
           /\ s[j + 2] = Backslash
           /\ run >= 1
        THEN (j + 3 + run) - i
        ELSE 0

ArticleMatchLen(s, i) ==
    IF ArticleAltLen(s, i, 1) > 0 THEN ArticleAltLen(s, i, 1)
    ELSE IF ArticleAltLen(s, i, 2) > 0 THEN ArticleAltLen(s, i, 2)
    ELSE ArticleAltLen(s, i, 3)

\* re.sub(r"\\b(a|an|the)\\b\\s+", "", s, flags=re.I)
RECURSIVE SubArticles(_, _)
SubArticles(s, i) ==
    IF i > Len(s) THEN <<>>
    ELSE IF ArticleMatchLen(s, i) > 0
         THEN SubArticles(s, i + ArticleMatchLen(s, i))
         ELSE <<s[i]>> \o SubArticles(s, i + 1)

KeptChars == LowerLetters \cup Digits \cup {" "}

\* re.sub(r"[^a-z0-9 ]+", " ", s): every maximal run of other characters
\* becomes one space
RECURSIVE SubNonAlnum(_, _)
SubNonAlnum(s, i) ==
    IF i > Len(s) THEN <<>>
    ELSE IF s[i] \in KeptChars THEN <<s[i]>> \o SubNonAlnum(s, i + 1)
    ELSE IF i > 1 /\ s[i - 1] \notin KeptChars THEN SubNonAlnum(s, i + 1)
    ELSE <<" ">> \o SubNonAlnum(s, i + 1)

\* re.sub(r"\\s+", " ", s): a literal backslash followed by one or more
\* letters s becomes one space
RECURSIVE SubBackslashS(_, _)
SubBackslashS(s, i) ==
    IF i > Len(s) THEN <<>>
    ELSE IF s[i] = Backslash /\ RunLen(s, i + 1, {"s"}) >= 1
         THEN <<" ">> \o SubBackslashS(s, i + 1 + RunLen(s, i + 1, {"s"}))
         ELSE <<s[i]>> \o SubBackslashS(s, i + 1)

NormTitlePart(s) == SubArticles(CutAtFirst(s), 1)

_norm_text_for_compare(s0, is_title) ==
    LET s1 == _strip_diacritics(s0)
        s2 == IF is_title THEN NormTitlePart(s1) ELSE keep_primary_author(s1)
        s3 == SubNonAlnum(Lower(s2), 1)
    IN  Strip(SubBackslashS(s3, 1))

\* Length of the common run of a from i and b from j, within a[..ahi], b[..bhi]
RECURSIVE CommonLen(_, _, _, _, _, _)
CommonLen(a, i, ahi, b, j, bhi) ==
    IF i <= ahi /\ j <= bhi /\ a[i] = b[j]
    THEN 1 + CommonLen(a, i + 1, ahi, b, j + 1, bhi)
    ELSE 0

\* SequenceMatcher.find_longest_match(alo, ahi, blo, bhi) (inclusive bounds
\* here): <<i, j, k>> with k maximal, then i minimal, then j minimal
LongestMatch(a, alo, ahi, b, blo, bhi) ==
    LET cand == {<<i, j>> \in (alo..ahi) \X (blo..bhi) : a[i] = b[j]}
        len(p) == CommonLen(a, p[1], ahi, b, p[2], bhi)
    IN  IF cand = {} THEN <<alo, blo, 0>>
        ELSE LET best == CHOOSE p \in cand :
                            \A q \in cand :
                               \/ len(p) > len(q)
                               \/ /\ len(p) = len(q)
                                  /\ \/ p[1] < q[1]
                                     \/ p[1] = q[1] /\ p[2] <= q[2]
             IN  <<best[1], best[2], len(best)>>

\* Sum of the sizes of SequenceMatcher.get_matching_blocks()
RECURSIVE MatchCount(_, _, _, _, _, _)
MatchCount(a, alo, ahi, b, blo, bhi) ==
    IF alo > ahi \/ blo > bhi THEN 0
    ELSE LET m == LongestMatch(a, alo, ahi, b, blo, bhi) IN
         IF m[3] = 0 THEN 0
         ELSE m[3]
              + MatchCount(a, alo, m[1] - 1, b, blo, m[2] - 1)
              + MatchCount(a, m[1] + m[3], ahi, b, m[2] + m[3], bhi)

Matches(a, b) == MatchCount(a, 1, Len(a), b, 1, Len(b))

\* The audit's threshold on SequenceMatcher.ratio(), in hundredths
MismatchRatioPct == 95

\* SequenceMatcher(None, a, b).ratio() < 0.95, where ratio() is
\* 2.0 * matches / (len(a) + len(b)), and 1.0 for two empty strings
RatioBelowThreshold(a, b) ==
    /\ Len(a) + Len(b) > 0
    /\ 200 * Matches(a, b) < MismatchRatioPct * (Len(a) + Len(b))

\* ------------------------------------------------------------------------
\* Metadata provider adapters
\*
\* A provider response is what requests.get(...) and r.json() hand to the
\* adapter: kind "error" is any exception raised inside the adapter's try
\* block (network failure, HTTP error status, a body that is not JSON or
\* not of the expected shape); otherwise the parsed payload.  A payload is
\* a function from the keys that are present to their values; list-valued
\* keys hold sequences of strs.
\* ------------------------------------------------------------------------
HttpScheme == "http://"

HttpsScheme == "https://"

\* thumb.replace("http://", "https://"); a scheme is one element of a URL
UpgradeScheme(url) ==
    [i \in 1..Len(url) |-> IF url[i] = HttpScheme THEN HttpsScheme ELSE url[i]]

\* ", ".join(xs)
RECURSIVE JoinComma(_)
JoinComma(xs) ==
    IF xs = <<>> THEN <<>>
    ELSE IF Len(xs) = 1 THEN xs[1]
    ELSE xs[1] \o <<",", " ">> \o JoinComma(Tail(xs))

\* x or y
Or(x, y) == IF Truthy(x) THEN x ELSE y

\* key.split("/")[-1]
RECURSIVE LastSegment(_)
LastSegment(s) ==
    IF Contains(s, <<"/">>)
    THEN LastSegment(SubSeq(s, Find(s, <<"/">>) + 1, Len(s)))
    ELSE s

\* f"https://covers.openlibrary.org/b/isbn/{isbn}-L.jpg"
IsbnCoverUrl(isbn) ==
    <<HttpsScheme, "covers.openlibrary.org/b/isbn/">> \o isbn \o <<"-L.jpg">>

\* f"https://covers.openlibrary.org/b/id/{cover_id}-L.jpg"
IdCoverUrl(cover_id) ==
    <<HttpsScheme, "covers.openlibrary.org/b/id/">> \o cover_id \o <<"-L.jpg">>

\* The empty dict {}
EmptyDict == [k \in {} |-> <<>>]

get_book_details_google(isbn, resp) ==
    IF ~Truthy(isbn) THEN EmptyDict
    ELSE IF resp.kind = "error" THEN EmptyDict
    ELSE IF resp.kind = "no_items" THEN EmptyDict
    ELSE
      LET info    == resp.info
          desc    == Or(Get(info, "description"), Get(info, "textSnippet"))
          thumb0  == Or(Get(info, "thumbnail"), Get(info, "smallThumbnail"))
          thumb   == IF thumb0 # <<>> /\ Head(thumb0) = HttpScheme
                     THEN UpgradeScheme(thumb0) ELSE thumb0
          cats    == Get(info, "categories")
          authors == Get(info, "authors")
          author  == IF authors # <<>>
                     THEN keep_primary_author(Strip(authors[1])) ELSE <<>>
      IN  [ISBN          |-> isbn,
           Title         |-> Strip(Get(info, "title")),
           Author        |-> author,
           Genre         |-> JoinComma(cats),
           Language      |-> Upper(Get(info, "language")),
           Thumbnail     |-> thumb,
           Description   |-> Strip(desc),
           Rating        |-> Get(info, "averageRating"),
           PublishedDate |-> Get(info, "publishedDate")]

\* The language of the jscmd=data payload (lines 313-318): with no
\* "languages" key the default [{}] is used, whose missing "key" defaults
\* to " "; an empty list raises IndexError, which is swallowed
OlDataLang(data) ==
    IF "languages" \notin DOMAIN data THEN Upper(LastSegment(<<" ">>))
    ELSE IF data["languages"] = <<>> THEN <<>>
    ELSE Upper(LastSegment(data["languages"][1]))

\* The language of the /isbn/{isbn}.json payload (lines 319-325)
OlIsbnLang(bj) ==
    IF Get(bj, "languages") = <<>> THEN <<>>
    ELSE Upper(LastSegment(bj["languages"][1]))

get_book_details_openlibrary(isbn, resp) ==
    IF resp.kind = "error" THEN EmptyDict
    ELSE
      LET data    == resp.data
          bj      == resp.bj
          authors == Get(data, "authors")
          author  == IF authors # <<>>
                     THEN keep_primary_author(Strip(authors[1])) ELSE <<>>
          subjects == JoinComma(Get(data, "subjects"))
          cover0  == Or(Get(data, "cover_large"), Get(data, "cover_medium"))
          desc0   == Get(data, "description")
          desc    == IF ~Truthy(desc0)
                     THEN Or(Get(bj, "work_description"), desc0) ELSE desc0
          cover   == IF Truthy(cover0) THEN cover0
                     ELSE IF Truthy(Get(bj, "covers"))
                          THEN IdCoverUrl(bj["covers"][1])
                          ELSE IsbnCoverUrl(isbn)
          lang0   == OlDataLang(data)
          lang    == IF ~Truthy(lang0) THEN OlIsbnLang(bj) ELSE lang0
      IN  [ISBN          |-> isbn,
           Title         |-> Strip(Get(data, "title")),
           Author        |-> author,
           Genre         |-> subjects,
           Language      |-> lang,
           Thumbnail     |-> cover,
           Description   |-> Strip(desc),
           PublishedDate |-> Get(data, "publish_date")]

\* ------------------------------------------------------------------------
\* Metadata merger
\* ------------------------------------------------------------------------
BackfillKeys ==
    <<"Title", "Author", "Genre", "Language", "Thumbnail", "Description",
      "PublishedDate">>

RequiredKeys ==
    <<"ISBN", "Title", "Author", "Genre", "Language", "Thumbnail",
      "Description", "Rating", "PublishedDate">>

\* "meta is google_meta" (line 354): meta is google_meta.copy() or
\* openlibrary_meta.copy(), a new object in either case
MetaIsGoogleMeta(primary_is_google) == FALSE

\* Lines 352-354, one key after the other
RECURSIVE Backfill(_, _, _, _, _)
Backfill(meta, google_meta, openlibrary_meta, primary_is_google, i) ==
    IF i > Len(BackfillKeys) THEN meta
    ELSE LET key == BackfillKeys[i]
             other == IF MetaIsGoogleMeta(primary_is_google)
                      THEN Get(openlibrary_meta, key)
                      ELSE Get(google_meta, key)
             next == IF ~Truthy(Get(meta, key)) THEN Put(meta, key, other)
                     ELSE meta
         IN  Backfill(next, google_meta, openlibrary_meta, primary_is_google,
                      i + 1)

\* meta.setdefault(k, "") for every required key (lines 357-358)
SetDefaults(meta) ==
    [k \in DOMAIN meta \cup {RequiredKeys[i] : i \in 1..Len(RequiredKeys)} |->
        Get(meta, k)]

\* " | ".join(parts)
RECURSIVE JoinBar(_)
JoinBar(xs) ==
    IF xs = <<>> THEN <<>>
    ELSE IF Len(xs) = 1 THEN xs[1]
    ELSE xs[1] \o <<" ", "|", " ">> \o JoinBar(Tail(xs))

\* get_goodreads_rating_placeholder
GoodreadsPlaceholder == <<"G", "R", ":", "unavailable">>

BadAuthorName == <<"J", "o_slash", " ", "L", "i", "e", "r", " ", "H", "o", "r", "s", "t">>

FixedAuthorName ==
    <<"J", "o_slash", "r", "n", " ", "L", "i", "e", "r", " ", "H", "o", "r", "s", "t">>

\* get_book_metadata if Open Library were preferred whenever it has a title
get_book_metadata_openlibrary_first(google_meta, openlibrary_meta, ol_avg) ==
    SetDefaults(IF Truthy(Get(openlibrary_meta, "Title"))
                THEN openlibrary_meta ELSE google_meta)

\* ol_avg is the average of get_openlibrary_rating as the text
\* str(round(float(avg), 2)) gives, <<>> for None
get_book_metadata(google_meta, openlibrary_meta, ol_avg) ==
    LET primary_is_google == Truthy(Get(google_meta, "Title"))
        meta0 == IF primary_is_google THEN google_meta ELSE openlibrary_meta
        meta1 == SetDefaults(Backfill(meta0, google_meta, openlibrary_meta,
                                      primary_is_google, 1))
        meta2 == [meta1 EXCEPT !["Language"] = _pretty_lang(@)]
        isbn  == meta2["ISBN"]
        meta3 == IF ~Truthy(meta2["Thumbnail"]) /\ Truthy(isbn)
                 THEN [meta2 EXCEPT !["Thumbnail"] = IsbnCoverUrl(isbn)]
                 ELSE meta2
        parts == (IF Truthy(Get(google_meta, "Rating"))
                  THEN << <<"G", "B", ":">> \o google_meta["Rating"] >>
                  ELSE <<>>)
                 \o (IF ol_avg # <<>> THEN << <<"O", "L", ":">> \o ol_avg >>
                     ELSE <<>>)
                 \o <<GoodreadsPlaceholder>>
        meta4 == [meta3 EXCEPT !["Rating"] = JoinBar(parts)]
        meta5 == IF meta4["Author"] = BadAuthorName
                 THEN [meta4 EXCEPT !["Author"] = FixedAuthorName]
                 ELSE meta4
    IN  [meta5 EXCEPT !["Author"] = keep_primary_author(@)]

\* ------------------------------------------------------------------------
\* The record store: one worksheet per tab
\*
\* A worksheet is its first row (the header cells, column names) and its
\* data rows (sequences of cells, each a str).  Column names are atomic.
\* ------------------------------------------------------------------------
EXACT_HEADERS ==
    <<"ISBN", "Title", "Author", "Genre", "Language", "Thumbnail",
      "Description", "Rating", "PublishedDate", "Date Read">>

Range(seq) == {seq[i] : i \in 1..Len(seq)}

\* list.index(x), 1-based; 0 stands for None
IndexOf(seq, x) ==
    IF x \in Range(seq)
    THEN CHOOSE i \in 1..Len(seq) :
            seq[i] = x /\ \A j \in 1..(i - 1) : seq[j] # x
    ELSE 0

\* h.strip() on a column name; "Title " is the padded name of the model
StripName(h) == IF h = "Title " THEN "Title" ELSE h

\* h.lower() on a column name
LowerName(h) ==
    CASE h = "ISBN" -> "isbn"
      [] h = "Title" -> "title"
      [] h = "Author" -> "author"
      [] h = "Genre" -> "genre"
      [] h = "Language" -> "language"
      [] h = "Thumbnail" -> "thumbnail"
      [] h = "Description" -> "description"
      [] h = "Rating" -> "rating"
      [] h = "PublishedDate" -> "publisheddate"
      [] h = "Date Read" -> "date read"
      [] h = "Notes" -> "notes"
      [] OTHER -> h

\* Trailing empty cells are not part of a row read from the sheet
RECURSIVE TrimTrailing(_, _)
TrimTrailing(row, empty) ==
    IF row # <<>> /\ row[Len(row)] = empty
    THEN TrimTrailing(SubSeq(row, 1, Len(row) - 1), empty)
    ELSE row

\* ws.row_values(1)
RowValues1(t) == TrimTrailing(t.header, "")

Max(a, b) == IF a >= b THEN a ELSE b

RECURSIVE MaxRowLen(_)
MaxRowLen(rows) ==
    IF rows = <<>> THEN 0 ELSE Max(Len(Head(rows)), MaxRowLen(Tail(rows)))

PadRow(row, width) ==
    [i \in 1..Max(width, Len(row)) |-> IF i <= Len(row) THEN row[i] ELSE <<>>]

\* The data rows of ws.get_all_values(), i.e. values[1:]: every row is
\* padded with "" to the width of the sheet
GetAllValuesRows(t) ==
    LET width == Max(Len(t.header), MaxRowLen(t.rows))
    IN  [i \in 1..Len(t.rows) |-> PadRow(t.rows[i], width)]

\* ws.update('A1', [headers]): the cells of row 1 from column A on are
\* overwritten; no other cell of the sheet moves
UpdateA1(t, headers) ==
    [t EXCEPT !.header =
        headers \o SubSeq(t.header, Len(headers) + 1, Len(t.header))]

RECURSIVE DropLeadingZeros(_)
DropLeadingZeros(s) ==
    IF Len(s) > 1 /\ Head(s) = "0" THEN DropLeadingZeros(Tail(s)) ELSE s

\* value_input_option="USER_ENTERED": the value is parsed as if typed into
\* the sheet.  A leading apostrophe marks the cell as text and is not part
\* of its value; a value of digits only becomes a number, which has no
\* leading zeros.
UserEntered(v) ==
    IF v # <<>> /\ Head(v) = Apostrophe THEN Tail(v)
    ELSE IF IsDigitStr(v) THEN DropLeadingZeros(v)
    ELSE v

\* ws.append_row(row, value_input_option="USER_ENTERED")
AppendRow(t, row) ==
    [t EXCEPT !.rows = Append(@, [i \in 1..Len(row) |-> UserEntered(row[i])])]

\* ws.update(f'A{row_index}', [row_values], value_input_option="USER_ENTERED")
\* for a data row (row_index >= 2) that exists
UpdateRow(t, row_index, row) ==
    LET old == t.rows[row_index - 1]
        new == [i \in 1..Len(row) |-> UserEntered(row[i])]
    IN  [t EXCEPT !.rows[row_index - 1] =
            new \o SubSeq(old, Len(new) + 1, Len(old))]

\* ------------------------------------------------------------------------
\* append_record
\* ------------------------------------------------------------------------
\* The store calls of append_record that can raise, in call order
AppendFailPoints ==
    {"none", "get_ws", "row_values", "update_header", "get_all_values",
     "append_row"}

\* Lines 476-483: the header list the code computes from row 1
EnsuredHeaders(t) ==
    LET headers == [i \in 1..Len(RowValues1(t)) |-> StripName(RowValues1(t)[i])]
        extras  == SelectSeq(headers, LAMBDA h : h \notin Range(EXACT_HEADERS))
    IN  IF headers = <<>> THEN EXACT_HEADERS ELSE EXACT_HEADERS \o extras

\* Lines 486-500: existing_isbns
ExistingIsbns(headers, rows) ==
    LET i_isbn == IndexOf(headers, "ISBN")
    IN  {_normalize_isbn(rows[n][i_isbn]) :
            n \in {m \in 1..Len(rows) :
                     /\ i_isbn # 0
                     /\ Len(rows[m]) >= i_isbn
                     /\ Truthy(_normalize_isbn(rows[m][i_isbn]))}}

\* (s or "").strip().lower()
NormKey(s) == Lower(Strip(s))

\* Lines 486-500: existing_ta
ExistingTa(headers, rows) ==
    LET i_title  == IndexOf(headers, "Title")
        i_author == IndexOf(headers, "Author")
    IN  {<<NormKey(rows[n][i_title]), NormKey(rows[n][i_author])>> :
            n \in {m \in 1..Len(rows) :
                     /\ i_title # 0
                     /\ i_author # 0
                     /\ Len(rows[m]) >= Max(i_title, i_author)
                     /\ \/ Truthy(NormKey(rows[m][i_title]))
                        \/ Truthy(NormKey(rows[m][i_author]))}}

\* Lines 512-513: the ISBN is given the text prefix, in the caller's dict
WithIsbnAsText(record) ==
    IF Truthy(Get(record, "ISBN")) /\ IsDigitStr(record["ISBN"])
    THEN [record EXCEPT !["ISBN"] = <<Apostrophe>> \o Strip(@)]
    ELSE record

\* keymap = {h.lower(): h for h in headers}; keymap.get(low, h): the last
\* header with that lower-case name
KeymapGet(headers, h) ==
    LET hits == {i \in 1..Len(headers) : LowerName(headers[i]) = LowerName(h)}
    IN  IF hits = {} THEN h
        ELSE headers[CHOOSE i \in hits : \A j \in hits : j <= i]

\* Lines 515-516 and 541-542: the record's values in header order
RowInHeaderOrder(headers, record) ==
    [i \in 1..Len(headers) |->
        IF KeymapGet(headers, headers[i]) \in DOMAIN record
        THEN record[KeymapGet(headers, headers[i])]
        ELSE Get(record, headers[i])]

\* append_record without the st.cache_data.clear() of line 518
append_record_keeping_cache(t, record, fail) ==
    LET headers == EnsuredHeaders(t)
        t1      == UpdateA1(t, headers)
        rows    == GetAllValuesRows(t1)
        existing_isbns == ExistingIsbns(headers, rows)
        existing_ta    == ExistingTa(headers, rows)
        inc_isbn_norm  == _normalize_isbn(Get(record, "ISBN"))
        inc_ta  == <<NormKey(Get(record, "Title")), NormKey(Get(record, "Author"))>>
        record1 == WithIsbnAsText(record)
        row     == RowInHeaderOrder(headers, record1)
    IN  IF fail \in {"get_ws", "row_values", "update_header"}
        THEN [table |-> t, outcome |-> "error", record |-> record,
              cleared |-> FALSE]
        ELSE IF fail = "get_all_values"
        THEN [table |-> t1, outcome |-> "error", record |-> record,
              cleared |-> FALSE]
        ELSE IF Truthy(inc_isbn_norm) /\ inc_isbn_norm \in existing_isbns
        THEN [table |-> t1, outcome |-> "dup_isbn", record |-> record,
              cleared |-> FALSE]
        ELSE IF inc_ta \in existing_ta
        THEN [table |-> t1, outcome |-> "dup_ta", record |-> record,
              cleared |-> FALSE]
        ELSE IF fail = "append_row"
        THEN [table |-> t1, outcome |-> "error", record |-> record1,
              cleared |-> FALSE]
        ELSE [table |-> AppendRow(t1, row), outcome |-> "appended",
              record |-> record1, cleared |-> FALSE]

\* append_record(tab, record) on worksheet t, with the store call named by
\* fail raising.  The result holds the worksheet after the call, the
\* outcome ("appended", "dup_isbn", "dup_ta", "error": the exception is
\* re-raised to the caller), the caller's dict after the call and whether
\* st.cache_data.clear() ran.
append_record(t, record, fail) ==
    LET headers == EnsuredHeaders(t)
        t1      == UpdateA1(t, headers)
        rows    == GetAllValuesRows(t1)
        existing_isbns == ExistingIsbns(headers, rows)
        existing_ta    == ExistingTa(headers, rows)
        inc_isbn_norm  == _normalize_isbn(Get(record, "ISBN"))
        inc_ta  == <<NormKey(Get(record, "Title")), NormKey(Get(record, "Author"))>>
        record1 == WithIsbnAsText(record)
        row     == RowInHeaderOrder(headers, record1)
    IN  IF fail \in {"get_ws", "row_values", "update_header"}
        THEN [table |-> t, outcome |-> "error", record |-> record,
              cleared |-> FALSE]
        ELSE IF fail = "get_all_values"
        THEN [table |-> t1, outcome |-> "error", record |-> record,
              cleared |-> FALSE]
        ELSE IF Truthy(inc_isbn_norm) /\ inc_isbn_norm \in existing_isbns
        THEN [table |-> t1, outcome |-> "dup_isbn", record |-> record,
              cleared |-> FALSE]
        ELSE IF inc_ta \in existing_ta
        THEN [table |-> t1, outcome |-> "dup_ta", record |-> record,
              cleared |-> FALSE]
        ELSE IF fail = "append_row"
        THEN [table |-> t1, outcome |-> "error", record |-> record1,
              cleared |-> FALSE]
        ELSE [table |-> AppendRow(t1, row), outcome |-> "appended",
              record |-> record1, cleared |-> TRUE]

\* ------------------------------------------------------------------------
\* update_gsheet_row
\* ------------------------------------------------------------------------
\* Lines 536-538
WithIsbnAsTextIfPresent(record) ==
    IF "ISBN" \in DOMAIN record THEN WithIsbnAsText(record) ELSE record

\* update_gsheet_row if it added the row at the end of the sheet
update_gsheet_row_appending(t, row_index, record, fail) ==
    LET headers == RowValues1(t)
        record1 == WithIsbnAsTextIfPresent(record)
        row_values == RowInHeaderOrder(headers, record1)
    IN  IF fail \in {"get_ws", "row_values"}
        THEN [table |-> t, outcome |-> "error", cleared |-> FALSE]
        ELSE IF headers = <<>>
        THEN [table |-> t, outcome |-> "no_headers", cleared |-> FALSE]
        ELSE IF fail = "update"
        THEN [table |-> t, outcome |-> "error", cleared |-> FALSE]
        ELSE [table |-> AppendRow(t, row_values),
              outcome |-> "updated", cleared |-> TRUE]

\* update_gsheet_row(tab, row_index, record) on worksheet t, with the store
\* call named by fail raising ("none", "get_ws", "row_values", "update").
\* Outcome "no_headers" is the early return of lines 532-534.
update_gsheet_row(t, row_index, record, fail) ==
    LET headers == RowValues1(t)
        record1 == WithIsbnAsTextIfPresent(record)
        row_values == RowInHeaderOrder(headers, record1)
    IN  IF fail \in {"get_ws", "row_values"}
        THEN [table |-> t, outcome |-> "error", cleared |-> FALSE]
        ELSE IF headers = <<>>
        THEN [table |-> t, outcome |-> "no_headers", cleared |-> FALSE]
        ELSE IF fail = "update"
        THEN [table |-> t, outcome |-> "error", cleared |-> FALSE]
        ELSE [table |-> UpdateRow(t, row_index, row_values),
              outcome |-> "updated", cleared |-> TRUE]

\* ------------------------------------------------------------------------
\* load_data
\* ------------------------------------------------------------------------
\* gspread's numericise, applied by get_all_records to every cell: a value
\* int() accepts becomes that number (str() of it has no leading zeros)
Numericise(v) == IF IsDigitStr(v) THEN DropLeadingZeros(v) ELSE v

HasDuplicates(seq) == \E i, j \in 1..Len(seq) : i # j /\ seq[i] = seq[j]

\* The DataFrame load_data builds from a worksheet: its columns and its
\* rows.  get_all_records gives no record for a sheet without data rows
\* (the frame then has no columns) and raises on a header with duplicate
\* names, in which case get_all_values is used and nothing is numericised.
LoadFrame(t) ==
    IF t.rows = <<>> \/ t.header = <<>>
    THEN [columns |-> <<>>, rows |-> <<>>]
    ELSE LET width == Len(t.header)
             cell(r, i) == IF i <= Len(r) THEN r[i] ELSE <<>>
         IN  [columns |-> t.header,
              rows |-> [n \in 1..Len(t.rows) |->
                          [i \in 1..width |->
                              IF HasDuplicates(t.header)
                              THEN cell(t.rows[n], i)
                              ELSE Numericise(cell(t.rows[n], i))]]]

\* load_data(worksheet) under @st.cache_data: the cached frame when there
\* is one
load_data(c, s, tab) == IF c[tab] # <<>> THEN c[tab][1] ELSE LoadFrame(s[tab])

\* The cache after load_data was called for every tab
Refill(c, s) == [tab \in DOMAIN c |-> <<load_data(c, s, tab)>>]

\* df[name] as a sequence of cells; a missing column reads as ""
FrameColumn(df, name) ==
    LET i == IndexOf(df.columns, name)
    IN  [n \in 1..Len(df.rows) |-> IF i = 0 THEN <<>> ELSE df.rows[n][i]]

\* ------------------------------------------------------------------------
\* State
\* ------------------------------------------------------------------------
VARIABLES
    store,      \* the spreadsheet: tab name -> worksheet
    session,    \* st.session_state (scan_isbn, scan_title, scan_author,
                \* last_scan_meta) and the uploader widget's file (upload)
    cache,      \* st.cache_data entries of load_data: tab name -> <<>> or <<frame>>
    audit,      \* what the last run of the Deep-Clean & Repair block rendered
    last        \* the last operation: its inputs, its outcome, the state before it

vars == <<store, session, cache, audit, last>>

Tabs == {"Library", "Wishlist"}

EmptySheet == [header |-> <<>>, rows |-> <<>>]

\* Lines 558-565: the session state after the first run of the script
InitSession ==
    [scan_isbn |-> <<>>, scan_title |-> <<>>, scan_author |-> <<>>,
     last_scan_meta |-> EmptyDict, upload |-> <<>>]

EmptyCache == [tab \in Tabs |-> <<>>]

NoAudit == [shown |-> FALSE, issues |-> {}]

\* ------------------------------------------------------------------------
\* SpecFn: the pure functions applied to bounded inputs
\* ------------------------------------------------------------------------
\* The most pieces an author string is built from
MaxPieces == 4

StephenKingPeterStraub ==
    <<"S","t","e","p","h","e","n"," ","K","i","n","g",",",
      " ","P","e","t","e","r"," ","S","t","r","a","u","b">>

Tolkien == <<"J","."," ","R","."," ","R","."," ","T","o","l","k","i","e","n">>

TampkeAndZusak ==
    <<"I","l","k","a"," ","T","a","m","p","k","e"," ","a","n","d",
      " ","M","a","r","k","u","s"," ","Z","u","s","a","k">>

IlkaTampke == <<"I","l","k","a"," ","T","a","m","p","k","e">>

AuthorPieces == {<<"K">>, <<"S">>, <<",">>, <<" ">>, SepAnd, SepAmp}

RECURSIVE PieceStrings(_)
PieceStrings(n) ==
    IF n = 0 THEN {<<>>}
    ELSE PieceStrings(n - 1)
         \cup {s \o p : s \in PieceStrings(n - 1), p \in AuthorPieces}

\* Author strings: every string of up to MaxPieces pieces, three names as
\* the providers give them, and a joined pair followed by two more names
AuthorInputs ==
    PieceStrings(MaxPieces)
    \cup {StephenKingPeterStraub, Tolkien, TampkeAndZusak,
          TampkeAndZusak \o <<",", " ", "K", ",", " ", "S">>}

IsbnInputs == {<<"9","7">>, <<>>}

\* volumeInfo of the first item of a Google Books response
GoogleInfoValue(k) ==
    CASE k = "title" -> <<"T","g">>
      [] k = "authors" -> << <<"A","g">> >>
      [] k = "description" -> <<"D","g">>
      [] k = "language" -> <<"e","n">>
      [] k = "thumbnail" -> <<HttpScheme, "g">>
      [] k = "categories" -> << <<"C","g">> >>
      [] k = "averageRating" -> <<"4",".","2">>
      [] k = "publishedDate" -> <<"2","0","0","1">>

\* The request raises, no item is returned, or an item is returned that
\* has any of the usual keys and all or none of the others
GoogleResponses ==
    LET keys == {"title", "authors", "description", "language"}
        extra == {"thumbnail", "categories", "averageRating", "publishedDate"}
    IN  {[kind |-> "error"], [kind |-> "no_items"]}
        \cup {[kind |-> "item", info |-> [k \in ks \cup ex |-> GoogleInfoValue(k)]] :
                 ks \in SUBSET keys, ex \in {{}, extra}}

\* The jscmd=data entry of an Open Library response ({} when the ISBN is
\* unknown) and the /isbn/{isbn}.json payload
OlDataValue(k) ==
    CASE k = "title" -> <<"T","o">>
      [] k = "authors" -> << <<"A","o">> >>
      [] k = "description" -> <<"D","o">>
      [] k = "subjects" -> << <<"C","o">> >>
      [] k = "publish_date" -> <<"1","9","9","9">>

OlDatas ==
    LET keys == {"title", "authors", "description"}
    IN  {[k \in ks |-> OlDataValue(k)] : ks \in SUBSET keys}
        \cup {[k \in ks \cup {"languages"} |->
                 IF k = "languages" THEN langs ELSE OlDataValue(k)] :
              ks \in SUBSET (keys \cup {"subjects", "publish_date"}),
              langs \in { <<>>, << <<"/","l","/","e","n","g">> >> }}

OlIsbnPayloads ==
    { EmptyDict,
      [k \in {"covers", "languages", "work_description"} |->
         CASE k = "covers" -> << <<"1","2">> >>
           [] k = "languages" -> << <<"/","l","/","f","r","e">> >>
           [] k = "work_description" -> <<"D","w">>] }

OlResponses ==
    {[kind |-> "error"]}
    \cup {[kind |-> "ok", data |-> d, bj |-> bj] : d \in OlDatas, bj \in OlIsbnPayloads}

OlAverages == {<<>>, <<"3",".","9">>}

LeadingArticles ==
    { <<"T","h","e"," ">>, <<"t","h","e"," ">>, <<"A"," ">>, <<"A","n"," ">> }

TitleInputs ==
    LET bases == { <<"D","u","n","e">>, <<"H","o","b">>, <<"R","e_acute","e">> }
        suffixes == { <<>>, <<":"," ","M">>, <<" ",":","M">>,
                      <<" ","(","2",")">>, <<" ","[","x","]">> }
        long == <<"F","r","a","n","k","e","n","s","t","e","i","n">>
    IN  {a \o b \o s : a \in LeadingArticles \cup {<<>>}, b \in bases,
                        s \in suffixes}
        \cup { <<"T","h","e"," ","H","o","b","b","i","t">>,
                <<"H","o","b","b","i","t">> }
        \cup {long, long \o <<"s">>}

InitFn ==
    /\ store = [tab \in Tabs |-> EmptySheet]
    /\ session = InitSession
    /\ cache = EmptyCache
    /\ audit = NoAudit
    /\ last = [op |-> "init"]

AppIdle == UNCHANGED <<store, session, cache, audit>>

FnKeepPrimaryAuthor ==
    /\ last.op = "init"
    /\ \E s \in AuthorInputs :
          last' = [op |-> "keep_primary_author", arg |-> s,
                   result |-> keep_primary_author(s)]
    /\ AppIdle

FnGoogle ==
    /\ last.op = "init"
    /\ \E isbn \in IsbnInputs, resp \in GoogleResponses :
          last' = [op |-> "get_book_details_google", isbn |-> isbn,
                   resp |-> resp,
                   result |-> get_book_details_google(isbn, resp)]
    /\ AppIdle

FnOpenLibrary ==
    /\ last.op = "init"
    /\ \E isbn \in IsbnInputs, resp \in OlResponses :
          last' = [op |-> "get_book_details_openlibrary", isbn |-> isbn,
                   resp |-> resp,
                   result |-> get_book_details_openlibrary(isbn, resp)]
    /\ AppIdle

\* get_book_metadata(isbn): both adapters are called, then the merge
FnMetadata ==
    /\ last.op = "init"
    /\ \E isbn \in IsbnInputs, g \in GoogleResponses, o \in OlResponses,
          avg \in OlAverages :
          LET google_meta == get_book_details_google(isbn, g)
              openlibrary_meta == get_book_details_openlibrary(isbn, o)
          IN  last' = [op |-> "get_book_metadata", isbn |-> isbn,
                       google_meta |-> google_meta,
                       openlibrary_meta |-> openlibrary_meta,
                       result |-> get_book_metadata(google_meta,
                                                    openlibrary_meta, avg)]
    /\ AppIdle

\* Lines 1004-1007: the title comparison of the Deep-Clean pass
FnTitleCompare ==
    /\ last.op = "init"
    /\ \E s \in TitleInputs, c \in TitleInputs :
          LET nt_s == _norm_text_for_compare(s, TRUE)
              nt_c == _norm_text_for_compare(c, TRUE)
          IN  last' = [op |-> "title_compare", sheet |-> s, canonical |-> c,
                       nt_s |-> nt_s, nt_c |-> nt_c,
                       mismatch |-> RatioBelowThreshold(nt_s, nt_c)]
    /\ AppIdle

\* The longest ISBN text _normalize_isbn is applied to
MaxIsbnLen == 4

\* Texts of digits, quotes, hyphens, blanks and the ISBN-10 check letter
RECURSIVE IsbnTexts(_)
IsbnTexts(n) ==
    IF n = 0 THEN {<<>>}
    ELSE IsbnTexts(n - 1)
         \cup {s \o <<c>> : s \in IsbnTexts(n - 1),
                            c \in {"0", "7", Apostrophe, "-", " ", "X"}}

\* _normalize_isbn(x), and _normalize_isbn applied to its own result
FnNormalizeIsbn ==
    /\ last.op = "init"
    /\ \E x \in IsbnTexts(MaxIsbnLen) :
          last' = [op |-> "_normalize_isbn", arg |-> x,
                   result |-> _normalize_isbn(x),
                   again |-> _normalize_isbn(_normalize_isbn(x))]
    /\ AppIdle

NextFn ==
    \/ FnKeepPrimaryAuthor
    \/ FnNormalizeIsbn
    \/ FnGoogle
    \/ FnOpenLibrary
    \/ FnMetadata
    \/ FnTitleCompare

SpecFn == InitFn /\ [][NextFn]_vars

\* ------------------------------------------------------------------------
\* Claims about the pure functions (checked under SpecFn)
\* ------------------------------------------------------------------------
\* The keys of the backfill whose value the merger does not post-process
PlainBackfillKeys == {"Title", "Genre", "Description", "PublishedDate"}

\* C1: in the record get_book_metadata returns, every backfill field that
\* is empty in the primary provider's record (Google when its title is
\* non-empty, else Open Library when its title is non-empty) holds the other
\* provider's value: as it is for Title, Genre, Description and
\* PublishedDate, made readable for Language, reduced to the primary author
\* for Author, and for Thumbnail whenever the other provider has one.
C1_BackfillFromOther ==
    last.op = "get_book_metadata" =>
      LET g == last.google_meta
          o == last.openlibrary_meta
          google_first == Truthy(Get(g, "Title"))
          primary == IF google_first THEN g ELSE o
          other   == IF google_first THEN o ELSE g
          r == last.result
      IN  Truthy(Get(primary, "Title")) =>
            /\ \A k \in PlainBackfillKeys :
                  ~Truthy(Get(primary, k)) => r[k] = Get(other, k)
            /\ ~Truthy(Get(primary, "Language")) =>
                  r["Language"] = _pretty_lang(Get(other, "Language"))
            /\ ~Truthy(Get(primary, "Author")) =>
                  r["Author"] = keep_primary_author(Get(other, "Author"))
            /\ (~Truthy(Get(primary, "Thumbnail")) /\ Truthy(Get(other, "Thumbnail"))) =>
                  r["Thumbnail"] = Get(other, "Thumbnail")

\* The string contains the separator before which the reduction cuts
CutBefore(s, sep) == Strip(SubSeq(s, 1, Find(s, sep) - 1))

\* C7 as stated: with two or more comma-separated segments (one comma or
\* more) the result is the first segment; otherwise with " and " or " & "
\* the text before the first occurrence of either; otherwise the string.
C7_Original ==
    last.op = "keep_primary_author" =>
      LET s == Strip(last.arg)
          r == last.result
          firstSep == IF ~Contains(s, SepAmp) THEN SepAnd
                      ELSE IF ~Contains(s, SepAnd) THEN SepAmp
                      ELSE IF Find(s, SepAnd) < Find(s, SepAmp) THEN SepAnd
                      ELSE SepAmp
      IN  IF CountChar(s, ",") >= 1 THEN r = CutBefore(s, <<",">>)
          ELSE IF Contains(s, SepAnd) \/ Contains(s, SepAmp)
               THEN r = CutBefore(s, firstSep)
          ELSE r = s

\* C7 (amended): with two or more commas (three or more comma-separated
\* segments) the result is the text before the first comma; otherwise,
\* one comma included, with " and " it is the text before the first " and ";
\* otherwise with " & " the text before the first " & "; otherwise the
\* string itself; surrounding whitespace is stripped in every case.
C7_PrimaryAuthor ==
    last.op = "keep_primary_author" =>
      LET s == Strip(last.arg)
          r == last.result
      IN  /\ CountChar(s, ",") >= 2 =>
                /\ ~Contains(r, <<",">>)
                /\ \E i \in 1..Len(s) :
                      /\ s[i] = ","
                      /\ r = RStrip(SubSeq(s, 1, i - 1))
          /\ (CountChar(s, ",") < 2 /\ Contains(s, SepAnd)) =>
                /\ ~Contains(r, SepAnd)
                /\ \E i \in 1..Len(s) :
                      /\ MatchAt(s, i, SepAnd)
                      /\ ~Contains(SubSeq(s, 1, i + 3), SepAnd)
                      /\ r = RStrip(SubSeq(s, 1, i - 1))
          /\ (CountChar(s, ",") < 2 /\ ~Contains(s, SepAnd) /\ Contains(s, SepAmp)) =>
                /\ ~Contains(r, SepAmp)
                /\ \E i \in 1..Len(s) :
                      /\ MatchAt(s, i, SepAmp)
                      /\ ~Contains(SubSeq(s, 1, i + 1), SepAmp)
                      /\ r = RStrip(SubSeq(s, 1, i - 1))
          /\ (CountChar(s, ",") < 2 /\ ~Contains(s, SepAnd) /\ ~Contains(s, SepAmp)) =>
                r = s
          /\ (last.arg = StephenKingPeterStraub => r = StephenKingPeterStraub)
          /\ (last.arg = TampkeAndZusak => r = IlkaTampke)
          /\ (last.arg = Tolkien => r = Tolkien)

\* C7 witness: the two-author string with one comma went through the
\* reduction and came back whole
C7_Witness ==
    /\ last.op = "keep_primary_author"
    /\ last.arg = StephenKingPeterStraub
    /\ last.result = StephenKingPeterStraub

\* A failed lookup: the request or the parsing raised, or the provider
\* answered that it has no such book
FailedLookup ==
    \/ last.resp.kind = "error"
    \/ last.resp.kind = "no_items"
    \/ /\ last.resp.kind = "ok"
       /\ last.resp.data = EmptyDict
       /\ last.resp.bj = EmptyDict

\* C8: after a network failure, a malformed response or a 'not found'
\* response each adapter returns an all-empty record: every field it
\* returns besides the ISBN it was asked for is the empty string.
C8_EmptyOnFailure ==
    (last.op \in {"get_book_details_google", "get_book_details_openlibrary"}
        /\ FailedLookup)
    => \A k \in DOMAIN last.result \ {"ISBN"} : last.result[k] = <<>>

DiffersOnlyBySubtitle(x, y) ==
    \E i \in 1..Len(x) :
       /\ x[i] = ":"
       /\ \A j \in 1..(i - 1) : x[j] # ":"
       /\ y = SubSeq(x, 1, i - 1)

DiffersOnlyByLeadingArticle(x, y) == \E a \in LeadingArticles : x = a \o y

\* C10: a stored and a canonical title that differ only by a subtitle
\* after the first colon, or only by a leading article, are equal after
\* _norm_text_for_compare and are not flagged as a title mismatch.
C10_SubtitleOrArticleNotFlagged ==
    (/\ last.op = "title_compare"
     /\ \/ DiffersOnlyBySubtitle(last.sheet, last.canonical)
        \/ DiffersOnlyBySubtitle(last.canonical, last.sheet)
        \/ DiffersOnlyByLeadingArticle(last.sheet, last.canonical)
        \/ DiffersOnlyByLeadingArticle(last.canonical, last.sheet))
    => (last.nt_s = last.nt_c /\ ~last.mismatch)

\* ------------------------------------------------------------------------
\* SpecAppend: append_record called on one worksheet, no store call failing
\* ------------------------------------------------------------------------
\* The most calls of append_record in a run
MaxCalls == 2

\* Records: the ISBN is a numeric one with a leading zero, the same one
\* quoted and hyphenated, another one or none; title and author are a name,
\* the same name in another case and padding, or none
Books ==
    {[ISBN |-> i, Title |-> t, Author |-> a] :
        i \in { <<"0","7">>, <<"'","0","-","7">>, <<"8">>, <<>> },
        t \in { <<"D">>, <<" ","d">>, <<>> },
        a \in { <<"D">>, <<>> }}

\* Rows a sheet may hold before the first call
SeedBooks ==
    { [ISBN |-> <<"0","7">>, Title |-> <<"D">>, Author |-> <<"D">>],
      [ISBN |-> <<"'","0","-","7">>, Title |-> <<>>, Author |-> <<>>],
      [ISBN |-> <<>>, Title |-> <<" ","d">>, Author |-> <<"D">>] }

\* Header rows a sheet may have before the first call: none, the canonical
\* one, the canonical one with a user's column, the columns in another
\* order, a canonical prefix, a padded name
SeedHeaders ==
    { EXACT_HEADERS,
      EXACT_HEADERS \o <<"Notes">>,
      <<"Title", "Author", "ISBN">>,
      <<"ISBN", "Title", "Author">>,
      <<"ISBN", "Title ", "Author">> }

\* The row of a book under a header: each cell under its column's name
RowUnder(header, book) ==
    [i \in 1..Len(header) |-> Get(book, StripName(header[i]))]

SeedSheets ==
    {EmptySheet}
    \cup {[header |-> h, rows |-> <<>>] : h \in SeedHeaders}
    \cup {[header |-> h, rows |-> <<RowUnder(h, b)>>] :
             h \in SeedHeaders, b \in SeedBooks}

InitAppend ==
    /\ \E t \in SeedSheets :
          /\ store = [tab \in Tabs |-> IF tab = "Library" THEN t ELSE EmptySheet]
          /\ cache = [tab \in Tabs |->
                         <<LoadFrame(IF tab = "Library" THEN t ELSE EmptySheet)>>]
    /\ session = InitSession
    /\ audit = NoAudit
    /\ last = [op |-> "init", calls |-> 0]

AppendCall ==
    /\ last.calls < MaxCalls
    /\ \E record \in Books :
          LET res == append_record(store["Library"], record, "none")
          IN  /\ store' = [store EXCEPT !["Library"] = res.table]
              /\ cache' = IF res.cleared THEN EmptyCache ELSE cache
              /\ last' = [op |-> "append_record", calls |-> last.calls + 1,
                          record |-> record, before |-> store["Library"],
                          outcome |-> res.outcome, written |-> res.record]
    /\ UNCHANGED <<session, audit>>

NextAppend == AppendCall

SpecAppend == InitAppend /\ [][NextAppend]_vars

\* ------------------------------------------------------------------------
\* Claims about append_record (checked under SpecAppend)
\* ------------------------------------------------------------------------
\* The cell a row holds under a column name, "" when the sheet has no such
\* column
CellUnder(t, row, name) ==
    LET names == [i \in 1..Len(t.header) |-> StripName(t.header[i])]
        i == IndexOf(names, name)
    IN  IF i = 0 \/ i > Len(row) THEN <<>> ELSE row[i]

\* Some row of t has this non-empty normalized ISBN
HasIsbn(t, isbn_norm) ==
    /\ isbn_norm # <<>>
    /\ \E n \in 1..Len(t.rows) :
          _normalize_isbn(CellUnder(t, t.rows[n], "ISBN")) = isbn_norm

\* Some row of t has this (title, author) pair, lowercased and trimmed, one
\* part of it at least being non-empty
HasTitleAuthor(t, ta) ==
    /\ ta # << <<>>, <<>> >>
    /\ \E n \in 1..Len(t.rows) :
          /\ NormKey(CellUnder(t, t.rows[n], "Title")) = ta[1]
          /\ NormKey(CellUnder(t, t.rows[n], "Author")) = ta[2]

IncIsbn == _normalize_isbn(Get(last.record, "ISBN"))

IncTa == <<NormKey(Get(last.record, "Title")), NormKey(Get(last.record, "Author"))>>

NoSharedIsbn(t) ==
    \A m, n \in 1..Len(t.rows) :
       (/\ m # n
        /\ _normalize_isbn(CellUnder(t, t.rows[m], "ISBN")) # <<>>)
       => _normalize_isbn(CellUnder(t, t.rows[m], "ISBN"))
            # _normalize_isbn(CellUnder(t, t.rows[n], "ISBN"))

\* C2: a record whose normalized ISBN is non-empty and equals that of an
\* existing row is skipped and the number of data rows is unchanged; so no
\* two rows of the table ever share a non-empty normalized ISBN.
C2_SkipsDuplicateIsbn ==
    /\ (last.op = "append_record" /\ HasIsbn(last.before, IncIsbn)) =>
          /\ last.outcome = "dup_isbn"
          /\ Len(store["Library"].rows) = Len(last.before.rows)
    /\ NoSharedIsbn(store["Library"])

\* C4: a record whose ISBN matches no existing row but whose (title,
\* author) pair, trimmed and lowercased, equals that of an existing row is
\* skipped as a title+author duplicate and no row is added; when the ISBN
\* matches too, the record is skipped as an ISBN duplicate.
C4_SkipsDuplicateTitleAuthor ==
    (last.op = "append_record" /\ HasTitleAuthor(last.before, IncTa)) =>
       /\ Len(store["Library"].rows) = Len(last.before.rows)
       /\ last.outcome =
            IF HasIsbn(last.before, IncIsbn) THEN "dup_isbn" ELSE "dup_ta"

\* C5: a record that matches no existing row by normalized ISBN or by
\* normalized (title, author) adds exactly one row, the last one; a purely
\* numeric ISBN is written with the leading-quote prefix, once, and the
\* stored cell normalizes to the normalized incoming ISBN.
C5_AppendsNewRecord ==
    (/\ last.op = "append_record"
     /\ ~HasIsbn(last.before, IncIsbn)
     /\ ~HasTitleAuthor(last.before, IncTa))
    => LET t == store["Library"]
           n == Len(t.rows)
       IN  /\ last.outcome = "appended"
           /\ n = Len(last.before.rows) + 1
           /\ SubSeq(t.rows, 1, n - 1) = last.before.rows
           /\ IsDigitStr(last.record["ISBN"]) =>
                 last.written["ISBN"] = <<Apostrophe>> \o last.record["ISBN"]
           /\ _normalize_isbn(CellUnder(t, t.rows[n], "ISBN")) = IncIsbn

\* ------------------------------------------------------------------------
\* SpecWrite: append_record and update_gsheet_row called on one worksheet,
\* any one store call of a call raising
\* ------------------------------------------------------------------------
\* The records append_record is given: a numeric ISBN with a leading zero,
\* the same one quoted and hyphenated, or none; a title or the same title
\* in another case and padding
WriteRecords ==
    {[ISBN |-> i, Title |-> t, Author |-> <<"D">>] :
        i \in { <<"0","7">>, <<"'","0","-","7">>, <<>> },
        t \in { <<"D">>, <<" ","d">> }}

AppendRecordCall ==
    /\ last.calls < MaxCalls
    /\ \E record \in WriteRecords, fail \in AppendFailPoints :
          LET res == append_record(store["Library"], record, fail)
          IN  /\ store' = [store EXCEPT !["Library"] = res.table]
              /\ cache' = IF res.cleared THEN EmptyCache ELSE cache
              /\ last' = [op |-> "append_record", calls |-> last.calls + 1,
                          record |-> record, before |-> store["Library"],
                          cache_before |-> cache, fail |-> fail,
                          outcome |-> res.outcome]
    /\ UNCHANGED <<session, audit>>

\* update_gsheet_row is given the sheet row of a data row (the first data
\* row is sheet row 2; row 2 on a sheet without a header row), and a book
\* or a title alone; any one of its store calls may raise
UpdateRowCall ==
    /\ last.calls < MaxCalls
    /\ \E row_index \in (IF store["Library"].header = <<>> THEN {2}
                         ELSE 2..(Len(store["Library"].rows) + 1)),
          record \in WriteRecords \cup {[Title |-> <<"N">>]},
          fail \in {"none", "get_ws", "row_values", "update"} :
          LET res == update_gsheet_row(store["Library"], row_index, record,
                                       fail)
          IN  /\ store' = [store EXCEPT !["Library"] = res.table]
              /\ cache' = IF res.cleared THEN EmptyCache ELSE cache
              /\ last' = [op |-> "update_gsheet_row",
                          calls |-> last.calls + 1, row_index |-> row_index,
                          record |-> record, before |-> store["Library"],
                          cache_before |-> cache, fail |-> fail,
                          outcome |-> res.outcome]
    /\ UNCHANGED <<session, audit>>

NextWrite ==
    \/ AppendRecordCall
    \/ UpdateRowCall

SpecWrite == InitAppend /\ [][NextWrite]_vars

\* ------------------------------------------------------------------------
\* Claims about failing and repairing writes (checked under SpecWrite)
\* ------------------------------------------------------------------------
\* C15: when a store call raises inside append_record or update_gsheet_row,
\* the table's header and rows are what they were before the call and the
\* caches are not cleared.
C15_FailureWritesNothing ==
    (last.op \in {"append_record", "update_gsheet_row"}
       /\ last.outcome = "error")
    => /\ store["Library"] = last.before
       /\ cache = last.cache_before

\* The cell a sheet shows for a value sent under a column: a numeric ISBN
\* is text, digit for digit; any other value is what the sheet parses
ShownCell(h, v) ==
    IF h = "ISBN" /\ IsDigitStr(v) THEN v ELSE UserEntered(v)

\* C16: update_gsheet_row leaves the number of rows and every other row as
\* they were, the row at row_index holds the record's values in header
\* order, a numeric ISBN being kept as text; on a sheet without a header
\* row nothing is written.
C16_UpdateInPlace ==
    last.op = "update_gsheet_row" =>
       LET b == last.before
           t == store["Library"]
           k == last.row_index - 1
       IN  /\ last.outcome = "updated" =>
                /\ t.header = b.header
                /\ Len(t.rows) = Len(b.rows)
                /\ \A n \in 1..Len(b.rows) : n # k => t.rows[n] = b.rows[n]
                /\ \A i \in 1..Len(b.header) :
                      t.rows[k][i] =
                         ShownCell(b.header[i], Get(last.record, b.header[i]))
           /\ b.header = <<>> => (t = b /\ last.outcome # "updated")

\* C16 witness: the second of two rows was rewritten with a record whose
\* ISBN is numeric with a leading zero
C16_Witness ==
    /\ last.op = "update_gsheet_row"
    /\ last.outcome = "updated"
    /\ last.row_index = 3
    /\ Len(last.before.rows) = 2
    /\ last.record = [ISBN |-> <<"0","7">>, Title |-> <<" ","d">>,
                      Author |-> <<"D">>]
    /\ store["Library"].rows[2] # last.before.rows[2]
    /\ store["Library"].rows[2][1] = <<"0","7">>

\* ------------------------------------------------------------------------
\* SpecRace: two script runs call append_record with the same record on the
\* same worksheet at the same time.  Each store call is one step; what a
\* run has read (headers, values) is local to it.
\* ------------------------------------------------------------------------
\* The two browser sessions whose runs submit the record
Submitters == {"s1", "s2"}

InitRace ==
    /\ \E t \in SeedSheets :
          /\ store = [tab \in Tabs |-> IF tab = "Library" THEN t ELSE EmptySheet]
          /\ cache = [tab \in Tabs |->
                         <<LoadFrame(IF tab = "Library" THEN t ELSE EmptySheet)>>]
    /\ \E record \in WriteRecords :
          /\ session = [p \in Submitters |->
                          [pc |-> "row_values", record |-> record,
                           headers |-> <<>>, values |-> <<>>,
                           outcome |-> "none"]]
          /\ last = [op |-> "init", record |-> record,
                     before |-> store["Library"], log |-> <<>>]
    /\ audit = NoAudit

\* Lines 476-483 in the run of p: row 1 is read and the header row written
EnsureHeaders(p) ==
    /\ session[p].pc = "row_values"
    /\ LET headers == EnsuredHeaders(store["Library"])
       IN  /\ store' = [store EXCEPT
                           !["Library"] = UpdateA1(store["Library"], headers)]
           /\ session' = [session EXCEPT ![p].pc = "get_all_values",
                                         ![p].headers = headers]
    /\ last' = [last EXCEPT !.op = "append_record",
                            !.log = Append(@, <<p, "update_header">>)]
    /\ UNCHANGED <<cache, audit>>

\* Line 485 in the run of p: the rows are read
ReadValues(p) ==
    /\ session[p].pc = "get_all_values"
    /\ session' = [session EXCEPT
                      ![p].pc = "append_row",
                      ![p].values = GetAllValuesRows(store["Library"])]
    /\ last' = [last EXCEPT !.log = Append(@, <<p, "get_all_values">>)]
    /\ UNCHANGED <<store, cache, audit>>

\* The last step of a run if the rows were read again, under a lock, at the
\* time of the append
DedupeAndAppendLocked(p) ==
    /\ session[p].pc = "append_row"
    /\ LET headers == session[p].headers
           rows    == GetAllValuesRows(store["Library"])
           record  == session[p].record
           inc_isbn_norm == _normalize_isbn(Get(record, "ISBN"))
           inc_ta  == <<NormKey(Get(record, "Title")),
                        NormKey(Get(record, "Author"))>>
           row     == RowInHeaderOrder(headers, WithIsbnAsText(record))
       IN  IF /\ Truthy(inc_isbn_norm)
              /\ inc_isbn_norm \in ExistingIsbns(headers, rows)
           THEN /\ session' = [session EXCEPT ![p].pc = "done",
                                              ![p].outcome = "dup_isbn"]
                /\ last' = [last EXCEPT !.log = Append(@, <<p, "skip">>)]
                /\ UNCHANGED <<store, cache>>
           ELSE IF inc_ta \in ExistingTa(headers, rows)
           THEN /\ session' = [session EXCEPT ![p].pc = "done",
                                              ![p].outcome = "dup_ta"]
                /\ last' = [last EXCEPT !.log = Append(@, <<p, "skip">>)]
                /\ UNCHANGED <<store, cache>>
           ELSE /\ store' = [store EXCEPT
                                !["Library"] = AppendRow(store["Library"], row)]
                /\ cache' = EmptyCache
                /\ session' = [session EXCEPT ![p].pc = "done",
                                              ![p].outcome = "appended"]
                /\ last' = [last EXCEPT !.log = Append(@, <<p, "append_row">>)]
    /\ UNCHANGED audit

\* Lines 486-518 in the run of p: the duplicate checks on the rows it read,
\* then the append and the cache clear
DedupeAndAppend(p) ==
    /\ session[p].pc = "append_row"
    /\ LET headers == session[p].headers
           rows    == session[p].values
           record  == session[p].record
           inc_isbn_norm == _normalize_isbn(Get(record, "ISBN"))
           inc_ta  == <<NormKey(Get(record, "Title")),
                        NormKey(Get(record, "Author"))>>
           row     == RowInHeaderOrder(headers, WithIsbnAsText(record))
       IN  IF /\ Truthy(inc_isbn_norm)
              /\ inc_isbn_norm \in ExistingIsbns(headers, rows)
           THEN /\ session' = [session EXCEPT ![p].pc = "done",
                                              ![p].outcome = "dup_isbn"]
                /\ last' = [last EXCEPT !.log = Append(@, <<p, "skip">>)]
                /\ UNCHANGED <<store, cache>>
           ELSE IF inc_ta \in ExistingTa(headers, rows)
           THEN /\ session' = [session EXCEPT ![p].pc = "done",
                                              ![p].outcome = "dup_ta"]
                /\ last' = [last EXCEPT !.log = Append(@, <<p, "skip">>)]
                /\ UNCHANGED <<store, cache>>
           ELSE /\ store' = [store EXCEPT
                                !["Library"] = AppendRow(store["Library"], row)]
                /\ cache' = EmptyCache
                /\ session' = [session EXCEPT ![p].pc = "done",
                                              ![p].outcome = "appended"]
                /\ last' = [last EXCEPT !.log = Append(@, <<p, "append_row">>)]
    /\ UNCHANGED audit

NextRace ==
    \E p \in Submitters :
       \/ EnsureHeaders(p)
       \/ ReadValues(p)
       \/ DedupeAndAppend(p)

SpecRace == InitRace /\ [][NextRace]_vars

\* ------------------------------------------------------------------------
\* Claims about concurrent submissions (checked under SpecRace)
\* ------------------------------------------------------------------------
\* The position in the log of the step a run took, 0 when it did not
LogIndex(p, step) ==
    IF \E i \in 1..Len(last.log) : last.log[i] = <<p, step>>
    THEN CHOOSE i \in 1..Len(last.log) : last.log[i] = <<p, step>>
    ELSE 0

AllDone == \A p \in Submitters : session[p].pc = "done"

\* The record matches no row of the sheet as it was before the two runs
RecordIsNew ==
    append_record(last.before, last.record, "none").outcome = "appended"

\* Every run read the rows before any run appended
AllReadBeforeAppend ==
    \A p, q \in Submitters :
       LogIndex(q, "append_row") = 0
       \/ LogIndex(p, "get_all_values") < LogIndex(q, "append_row")

\* One run ended before the other began
NotInterleaved ==
    \E p, q \in Submitters :
       /\ p # q
       /\ \A i, j \in 1..Len(last.log) :
             (last.log[i][1] = p /\ last.log[j][1] = q) => i < j

\* The rows of the sheet that were added by the runs
AddedRows ==
    SubSeq(store["Library"].rows, Len(last.before.rows) + 1,
           Len(store["Library"].rows))

\* C19: two runs submitting the same new record both append when each read
\* the rows before the other appended, leaving two rows with the same
\* normalized ISBN; when one run ends before the other begins, the second
\* is skipped.
C19_RaceAppendsTwice ==
    (AllDone /\ RecordIsNew) =>
       /\ AllReadBeforeAppend =>
             /\ \A p \in Submitters : session[p].outcome = "appended"
             /\ Len(AddedRows) = 2
             /\ _normalize_isbn(CellUnder(store["Library"], AddedRows[1], "ISBN"))
                  = _normalize_isbn(CellUnder(store["Library"], AddedRows[2], "ISBN"))
       /\ NotInterleaved =>
             /\ Len(AddedRows) = 1
             /\ \E p, q \in Submitters :
                   /\ LogIndex(p, "append_row") # 0
                   /\ LogIndex(p, "append_row") < LogIndex(q, "skip")
                   /\ session[q].outcome \in {"dup_isbn", "dup_ta"}

\* C19 witness: both runs read the rows before either appended, and the
\* sheet has two new rows with the same non-empty normalized ISBN
C19_Witness ==
    /\ AllDone
    /\ RecordIsNew
    /\ AllReadBeforeAppend
    /\ Len(AddedRows) = 2
    /\ _normalize_isbn(CellUnder(store["Library"], AddedRows[1], "ISBN"))
         = <<"0","7">>
    /\ _normalize_isbn(CellUnder(store["Library"], AddedRows[2], "ISBN"))
         = <<"0","7">>

\* ------------------------------------------------------------------------
\* Spec: the app, one action per script run a user interaction triggers,
\* no store call failing
\* ------------------------------------------------------------------------
\* The most data rows Library and Wishlist hold together
MaxRows == 2

\* An ISBN both providers know and one neither knows
KnownIsbn == <<"9","7">>

ScanIsbns == {KnownIsbn, <<"9","9">>}

\* What the Google Books volumes endpoint answers for an ISBN
GoogleVolumes(isbn) ==
    IF isbn = KnownIsbn
    THEN [kind |-> "item",
          info |-> [k \in {"title", "authors", "language"} |->
                      CASE k = "title" -> <<"D">>
                        [] k = "authors" -> << <<"D">> >>
                        [] k = "language" -> <<"e","n">>]]
    ELSE [kind |-> "no_items"]

\* What the Open Library endpoints answer for an ISBN
OpenLibraryBooks(isbn) ==
    IF isbn = KnownIsbn
    THEN [kind |-> "ok",
          data |-> [k \in {"title", "languages"} |->
                      CASE k = "title" -> <<"D">>
                        [] k = "languages" -> << <<"/","l","/","e","n","g">> >>],
          bj |-> EmptyDict]
    ELSE [kind |-> "error"]

\* get_book_metadata(isbn) against these providers
FetchMetadata(isbn) ==
    get_book_metadata(get_book_details_google(isbn, GoogleVolumes(isbn)),
                      get_book_details_openlibrary(isbn, OpenLibraryBooks(isbn)),
                      <<>>)

\* Items get_recommendations_by_author may return: a book, and a volume
\* whose volumeInfo has neither title nor authors
RecItems ==
    { [title |-> <<"N">>, authors |-> <<"D">>, isbn |-> <<"8">>],
      [title |-> <<>>, authors |-> <<>>, isbn |-> <<"6">>] }

TotalRows(s) == Len(s["Library"].rows) + Len(s["Wishlist"].rows)

Init ==
    /\ store = [tab \in Tabs |-> EmptySheet]
    /\ session = InitSession
    /\ cache = Refill(EmptyCache, store)
    /\ audit = NoAudit
    /\ last = [op |-> "init", outcome |-> "none", notice |-> "none"]

\* Lines 626-656: the scanner block of a script run; with a file in the
\* uploader whose code resolves to a title, the scan entries are set
ScanBlock(sess) ==
    LET meta == FetchMetadata(sess.upload)
    IN  IF sess.upload # <<>> /\ Truthy(Get(meta, "Title"))
        THEN [sess EXCEPT !.scan_isbn = Get(meta, "ISBN"),
                          !.scan_title = Get(meta, "Title"),
                          !.scan_author = Get(meta, "Author"),
                          !.last_scan_meta = meta]
        ELSE sess

\* Lines 609-611, 684-686, 695-697: the scan entries are cleared
ClearScan(sess) ==
    [sess EXCEPT !.scan_isbn = <<>>, !.scan_title = <<>>,
                 !.scan_author = <<>>, !.last_scan_meta = EmptyDict]

\* Lines 579-583: the record the manual form builds
EnrichKeys ==
    {"Genre", "Language", "Thumbnail", "Description", "Rating", "PublishedDate"}

FormRecord(title, author, isbn, date_read, scan_meta) ==
    [k \in {"ISBN", "Title", "Author", "Date Read"}
           \cup {e \in EnrichKeys : Truthy(Get(scan_meta, e))} |->
        CASE k = "ISBN" -> isbn
          [] k = "Title" -> title
          [] k = "Author" -> author
          [] k = "Date Read" -> date_read
          [] OTHER -> scan_meta[k]]

\* Lines 597-601: existing_isbns and existing_ta over a loaded frame
FrameIsbns(df) ==
    {_normalize_isbn(FrameColumn(df, "ISBN")[n]) : n \in 1..Len(df.rows)}

FrameTa(df) ==
    {<<NormKey(FrameColumn(df, "Title")[n]), NormKey(FrameColumn(df, "Author")[n])>> :
        n \in 1..Len(df.rows)}

\* Lines 577-623: the run in which "Add Book" was pressed, with what the
\* user typed into the title, author and ISBN fields
SubmitEntryForm ==
    /\ TotalRows(store) < MaxRows
    /\ \E title \in {<<"D">>, <<"N">>, <<>>}, author \in {<<"D">>},
          isbn \in {KnownIsbn, <<>>}, choice \in Tabs :
          LET rec == FormRecord(title, author, isbn, <<>>, session.last_scan_meta)
              lib_df == load_data(cache, store, "Library")
              wish_df == load_data(cache, store, "Wishlist")
              cache1 == Refill(cache, store)
              existing_isbns == FrameIsbns(lib_df) \cup FrameIsbns(wish_df)
              existing_ta == FrameTa(lib_df) \cup FrameTa(wish_df)
              inc_isbn_norm == _normalize_isbn(isbn)
              inc_ta == <<NormKey(title), NormKey(author)>>
              res == append_record(store[choice], rec, "none")
              store1 == [store EXCEPT ![choice] = res.table]
          IN  IF ~(Truthy(title) /\ Truthy(author))
              THEN /\ store' = store
                   /\ session' = ScanBlock(session)
                   /\ cache' = cache1
                   /\ last' = [op |-> "form", outcome |-> "none",
                               notice |-> "need_title_and_author"]
              ELSE IF \/ Truthy(inc_isbn_norm) /\ inc_isbn_norm \in existing_isbns
                      \/ inc_ta \in existing_ta
              THEN /\ store' = store
                   /\ session' = ScanBlock(session)
                   /\ cache' = cache1
                   /\ last' = [op |-> "form", outcome |-> "none",
                               notice |-> "already_exists"]
              ELSE /\ store' = store1
                   /\ session' = ScanBlock(ClearScan(session))
                   /\ cache' = Refill(IF res.cleared THEN EmptyCache ELSE cache1,
                                      store1)
                   /\ last' = [op |-> "form", outcome |-> res.outcome,
                               notice |-> "added", record |-> rec,
                               scan_meta |-> session.last_scan_meta]
    /\ audit' = NoAudit

\* Lines 629-656: a photo is put into the uploader and the script runs
UploadBarcode ==
    /\ \E isbn_bc \in ScanIsbns :
          /\ session.upload # isbn_bc
          /\ session' = ScanBlock([session EXCEPT !.upload = isbn_bc])
          /\ last' = [op |-> "scan", outcome |-> "none",
                      notice |-> IF Truthy(Get(FetchMetadata(isbn_bc), "Title"))
                                 THEN "details" ELSE "could_not_fetch"]
    /\ cache' = Refill(cache, store)
    /\ audit' = NoAudit
    /\ UNCHANGED store

\* The photo is removed from the uploader and the script runs
RemoveUpload ==
    /\ session.upload # <<>>
    /\ session' = [session EXCEPT !.upload = <<>>]
    /\ cache' = Refill(cache, store)
    /\ audit' = NoAudit
    /\ last' = [op |-> "remove_upload", outcome |-> "none", notice |-> "none"]
    /\ UNCHANGED store

\* Lines 680-702: the run in which "Add to Library" or "Add to Wishlist" of
\* the scanned book was pressed.  The buttons exist when the uploaded code
\* resolved to a title; after st.rerun() the scanner block runs again.
AddScanned ==
    /\ TotalRows(store) < MaxRows
    /\ session.upload # <<>>
    /\ LET meta == FetchMetadata(session.upload)
       IN  /\ Truthy(Get(meta, "Title"))
           /\ \E tab \in Tabs :
                 LET res == append_record(store[tab], meta, "none")
                     store1 == [store EXCEPT ![tab] = res.table]
                 IN  /\ store' = store1
                     /\ session' = ScanBlock(ClearScan(session))
                     /\ cache' = Refill(IF res.cleared THEN EmptyCache ELSE cache,
                                        store1)
                     /\ last' = [op |-> "scan_add", outcome |-> res.outcome,
                                 notice |-> "added"]
    /\ audit' = NoAudit

\* s.split(","), each part stripped, the empty ones dropped
RECURSIVE CommaParts(_)
CommaParts(s) ==
    IF Contains(s, <<",">>)
    THEN {Strip(SplitFirst(s, <<",">>))}
         \cup CommaParts(SubSeq(s, Find(s, <<",">>) + 1, Len(s)))
    ELSE {Strip(s)}

\* Lines 789-802: the authors of the Library
LibraryAuthors(library_df) ==
    UNION {CommaParts(FrameColumn(library_df, "Author")[n]) :
              n \in 1..Len(library_df.rows)} \ {<<>>}

\* Lines 779-786: owned_titles and owned_isbns
OwnedTitles(library_df, wishlist_df) ==
    UNION {{Strip(Lower(FrameColumn(df, "Title")[n])) : n \in 1..Len(df.rows)} :
              df \in {d \in {library_df, wishlist_df} :
                         "Title" \in Range(d.columns)}}

OwnedIsbns(library_df, wishlist_df) ==
    FrameIsbns(library_df) \cup FrameIsbns(wishlist_df)

\* Lines 818-821 and 866-870: the items that are shown
Owned(item, library_df, wishlist_df) ==
    LET title == Strip(item.title)
        isbn == _normalize_isbn(item.isbn)
    IN  \/ Lower(title) \in OwnedTitles(library_df, wishlist_df)
        \/ Truthy(isbn) /\ isbn \in OwnedIsbns(library_df, wishlist_df)

\* Lines 836-840 and 888-892
RecMeta(item) ==
    [ISBN |-> _normalize_isbn(item.isbn), Title |-> Strip(item.title),
     Author |-> item.authors, Thumbnail |-> <<>>, Description |-> <<>>,
     PublishedDate |-> <<>>]

\* Lines 841-846 and 893-898: "Add to Wishlist" of a shown item
AddToWishlist(item, op) ==
    LET res == append_record(store["Wishlist"], RecMeta(item), "none")
        store1 == [store EXCEPT !["Wishlist"] = res.table]
    IN  /\ store' = store1
        /\ cache' = Refill(IF res.cleared THEN EmptyCache ELSE cache, store1)
        /\ last' = [op |-> op, outcome |-> res.outcome, notice |-> "added"]
        /\ session' = ScanBlock(session)
        /\ audit' = NoAudit

\* Lines 806-853: mode "By author"
AddRecommendationByAuthor ==
    /\ TotalRows(store) < MaxRows
    /\ \E item \in RecItems :
          /\ ~Owned(item, load_data(cache, store, "Library"),
                    load_data(cache, store, "Wishlist"))
          /\ AddToWishlist(item, "rec_by_author")

\* Lines 855-902: mode "Surprise me"
AddRecommendationSurprise ==
    /\ TotalRows(store) < MaxRows
    /\ LibraryAuthors(load_data(cache, store, "Library")) # {}
    /\ \E item \in RecItems :
          /\ Truthy(Strip(item.title))
          /\ ~Owned(item, load_data(cache, store, "Library"),
                    load_data(cache, store, "Wishlist"))
          /\ AddToWishlist(item, "rec_surprise")

\* Lines 982-986: the cell of a frame row, "" under a missing column
FrameCell(df, n, name) == FrameColumn(df, name)[n]

\* Lines 1002-1016: the mismatches of one Library row against the canonical
\* record, as field -> canonical value
Mismatches(df, n, canonical_data) ==
    LET nt_s == _norm_text_for_compare(FrameCell(df, n, "Title"), TRUE)
        nt_c == _norm_text_for_compare(Get(canonical_data, "Title"), TRUE)
        na_s == _norm_text_for_compare(FrameCell(df, n, "Author"), FALSE)
        na_c == _norm_text_for_compare(Get(canonical_data, "Author"), FALSE)
        fields ==
            {f \in {"Title"} : RatioBelowThreshold(nt_s, nt_c)}
            \cup {f \in {"Author"} : RatioBelowThreshold(na_s, na_c)}
            \cup {f \in {"Description", "Language", "Thumbnail"} :
                    /\ ~Truthy(Strip(FrameCell(df, n, f)))
                    /\ Truthy(Strip(Get(canonical_data, f)))}
    IN  [f \in fields |-> Get(canonical_data, f)]

\* Lines 991-1020: what the pass finds for row n of the frame; no
\* mismatches when the row is skipped
RowMismatches(df, n) ==
    LET isbn == _normalize_isbn(FrameCell(df, n, "ISBN"))
        canonical_data == FetchMetadata(isbn)
    IN  IF ~Truthy(isbn) THEN EmptyDict
        ELSE IF ~Truthy(Get(canonical_data, "Title")) THEN EmptyDict
        ELSE Mismatches(df, n, canonical_data)

\* Lines 1017-1020: the rows the pass reports, with their sheet row index
IssuesFound(df) ==
    {issue \in {[row |-> n + 1, mismatches |-> RowMismatches(df, n)] :
                   n \in 1..Len(df.rows)} :
        issue.mismatches # EmptyDict}

\* Lines 1032-1034: corrected_record of a reported row
CorrectedRecord(df, issue) ==
    LET cols == Range(df.columns)
                \cup {"ISBN", "Title", "Author", "Description", "Language",
                      "Thumbnail"}
    IN  [c \in cols |->
            IF c \in DOMAIN issue.mismatches THEN issue.mismatches[c]
            ELSE FrameCell(df, issue.row - 1, c)]

\* The pass of lines 979-1047 if it applied its first suggestion itself
StartDeepCleanApplying ==
    LET lib == load_data(cache, store, "Library")
        issues == IssuesFound(lib)
        first == CHOOSE i \in issues : \A j \in issues : i.row <= j.row
        res == update_gsheet_row(store["Library"], first.row,
                                 CorrectedRecord(lib, first), "none")
        store1 == [store EXCEPT !["Library"] = res.table]
    IN  /\ store' = IF issues = {} THEN store ELSE store1
        /\ cache' = IF issues = {} THEN Refill(cache, store)
                    ELSE Refill(EmptyCache, store1)
        /\ session' = ScanBlock(session)
        /\ audit' = [shown |-> TRUE, issues |-> issues]
        /\ last' = [op |-> "deep_clean", outcome |-> "none",
                    notice |-> IF issues = {} THEN "no_issues" ELSE "issues"]

\* Lines 979-1047: the run in which "Start Deep-Clean & Repair" was pressed.
\* The accept buttons are created in this run and are not pressed in it.
StartDeepClean ==
    LET lib == load_data(cache, store, "Library")
        issues == IssuesFound(lib)
    IN  /\ store' = store
        /\ cache' = Refill(cache, store)
        /\ session' = ScanBlock(session)
        /\ audit' = [shown |-> TRUE, issues |-> issues]
        /\ last' = [op |-> "deep_clean", outcome |-> "none",
                    notice |-> IF issues = {} THEN "no_issues" ELSE "issues"]

\* Lines 979 and 1030: the run in which a rendered "Accept & Update Row"
\* was pressed.  In that run st.button("Start Deep-Clean & Repair") is
\* False, so the block holding the accept button is not executed.
ClickAcceptUpdate ==
    /\ audit.shown
    /\ \E issue \in audit.issues :
          last' = [op |-> "accept", outcome |-> "none", notice |-> "none",
                   row |-> issue.row]
    /\ store' = store
    /\ cache' = Refill(cache, store)
    /\ session' = ScanBlock(session)
    /\ audit' = NoAudit

Next ==
    \/ SubmitEntryForm
    \/ UploadBarcode
    \/ RemoveUpload
    \/ AddScanned
    \/ AddRecommendationByAuthor
    \/ AddRecommendationSurprise
    \/ StartDeepClean
    \/ ClickAcceptUpdate

Spec == Init /\ [][Next]_vars

\* ------------------------------------------------------------------------
\* Claims about the app (checked under Spec)
\* ------------------------------------------------------------------------
SheetIsbns(t) ==
    {_normalize_isbn(CellUnder(t, t.rows[n], "ISBN")) : n \in 1..Len(t.rows)}
    \ {<<>>}

SheetTa(t) ==
    {<<NormKey(CellUnder(t, t.rows[n], "Title")),
       NormKey(CellUnder(t, t.rows[n], "Author"))>> : n \in 1..Len(t.rows)}

\* C3: after any sequence of adds through the app, from two tables with no
\* shared book, no non-empty normalized ISBN and no (title, author) pair,
\* lowercased and trimmed, is present in both Library and Wishlist.
C3_UniqueAcrossTabs ==
    /\ SheetIsbns(store["Library"]) \cap SheetIsbns(store["Wishlist"]) = {}
    /\ SheetTa(store["Library"]) \cap SheetTa(store["Wishlist"]) = {}

\* C6: every row of Library and Wishlist has a non-empty title or a
\* non-empty author.
C6_TitleOrAuthor ==
    \A tab \in Tabs : \A n \in 1..Len(store[tab].rows) :
       \/ Truthy(CellUnder(store[tab], store[tab].rows[n], "Title"))
       \/ Truthy(CellUnder(store[tab], store[tab].rows[n], "Author"))

\* C9: a run of the Deep-Clean & Repair pass leaves the headers and the
\* rows of Library and Wishlist as they were; a step of the audit that
\* changes the store is an accept of one row and changes that row only.
C9_AuditNeverWrites ==
    [][/\ last'.op = "deep_clean" => store' = store
       /\ (last'.op \in {"deep_clean", "accept"} /\ store' # store) =>
             /\ last'.op = "accept"
             /\ store'["Wishlist"] = store["Wishlist"]
             /\ store'["Library"].header = store["Library"].header
             /\ Len(store'["Library"].rows) = Len(store["Library"].rows)
             /\ \A n \in 1..Len(store["Library"].rows) :
                   n # last'.row - 1 =>
                      store'["Library"].rows[n] = store["Library"].rows[n]]_vars

\* C9 witness: a pass has just reported issues for rows of a Library
C9_Witness ==
    /\ last.op = "deep_clean"
    /\ audit.shown
    /\ audit.issues # {}
    /\ store["Library"].rows # <<>>

\* ------------------------------------------------------------------------
\* Further claims about the pure functions (checked under SpecFn)
\* ------------------------------------------------------------------------
\* C11: the merged title is Google's title when that is non-empty, else
\* Open Library's title when that is non-empty, else the empty string.
C11_MergedTitle ==
    last.op = "get_book_metadata" =>
      LET a == Get(last.google_meta, "Title")
          b == Get(last.openlibrary_meta, "Title")
      IN  last.result["Title"] =
             IF Truthy(a) THEN a ELSE IF Truthy(b) THEN b ELSE <<>>

\* C11 witness: both providers have a title, the two differ, and the merged
\* title is Google's
C11_Witness ==
    /\ last.op = "get_book_metadata"
    /\ Truthy(Get(last.google_meta, "Title"))
    /\ Truthy(Get(last.openlibrary_meta, "Title"))
    /\ Get(last.google_meta, "Title") # Get(last.openlibrary_meta, "Title")
    /\ last.result["Title"] = Get(last.google_meta, "Title")

\* The display name of an uppercased language code: looked up in the
\* 2-letter table, then in the 3-letter table, else the code itself
DisplayName(code) ==
    IF \E p \in ISO_LANG_2 : p[1] = code THEN LangLookup(ISO_LANG_2, code)
    ELSE LangLookup(ISO_LANG_3, code)

\* C12: the language of the merged record is the display name of the
\* primary record's language code when that code is a known 2-letter or
\* 3-letter code, the uppercased code when it is in neither table, and
\* empty when the code is empty.
C12_LanguageDisplayName ==
    last.op = "get_book_metadata" =>
      LET primary == IF Truthy(Get(last.google_meta, "Title"))
                     THEN last.google_meta ELSE last.openlibrary_meta
          code == Upper(Strip(Get(primary, "Language")))
      IN  Truthy(code) => last.result["Language"] = DisplayName(code)

\* C13: _normalize_isbn applied to its own result gives that result; the
\* result is the digit characters of the input in their order, and is
\* empty for an empty input.
C13_NormalizeIsbnIdempotent ==
    last.op = "_normalize_isbn" =>
       /\ last.again = last.result
       /\ last.result = SelectSeq(last.arg, IsDigitChar)
       /\ last.arg = <<>> => last.result = <<>>

\* C13 witness: a quoted, hyphenated ISBN was reduced to its digits
C13_Witness ==
    /\ last.op = "_normalize_isbn"
    /\ last.arg = <<Apostrophe, "0", "-", "7">>
    /\ last.result = <<"0", "7">>
    /\ last.again = <<"0", "7">>

\* C14: when append_record skips a record as a duplicate, by ISBN or by
\* title and author, the header row and every data row of the table are
\* what they were before the call.
C14_SkipWritesNothing ==
    (last.op = "append_record" /\ last.outcome \in {"dup_isbn", "dup_ta"})
    => store["Library"] = last.before

\* C17: the audit reports a title whenever the normalized stored title is
\* not equal to the normalized canonical title.
C17_NonExactReported ==
    last.op = "title_compare" => (last.nt_s # last.nt_c => last.mismatch)

C20_AddedOnlyWhenAppended ==
    last.notice = "added" => last.outcome = "appended"

\* C21: a row the manual form adds for a book whose title and ISBN both
\* differ from those of the last successful scan holds none of the
\* enrichment fields of that scan.
C21_EnrichmentOfSubmittedBook ==
    (/\ last.op = "form"
     /\ last.outcome = "appended"
     /\ NormKey(Get(last.record, "Title"))
          # NormKey(Get(last.scan_meta, "Title"))
     /\ _normalize_isbn(Get(last.record, "ISBN"))
          # _normalize_isbn(Get(last.scan_meta, "ISBN")))
    => \A e \in EnrichKeys : ~Truthy(Get(last.record, e))

\* C22: the run caused by a click on "Accept & Update Row" of a reported
\* row calls update_gsheet_row for that row, and the row is updated.
C22_AcceptUpdatesRow ==
    last.op = "accept" => last.outcome = "updated"

\* C23: after a call of append_record every column name the header had is
\* still in the header, and every row the sheet had holds under each of
\* those names the value it held before.
C23_CellsKeepTheirColumn ==
    last.op = "append_record" =>
       LET b == last.before
           t == store["Library"]
       IN  \A i \in 1..Len(b.header) :
              LET name == StripName(b.header[i])
              IN  /\ \E j \in 1..Len(t.header) : StripName(t.header[j]) = name
                  /\ \A n \in 1..Len(b.rows) :
                        CellUnder(t, t.rows[n], name)
                          = CellUnder(b, b.rows[n], name)

\* C24: keep_primary_author applied to its own result gives that result,
\* and the result contains neither " and " nor " & ".
C24_PrimaryAuthorIdempotent ==
    last.op = "keep_primary_author" =>
       /\ keep_primary_author(last.result) = last.result
       /\ ~Contains(last.result, SepAnd)
       /\ ~Contains(last.result, SepAmp)
====
